---- MODULE Spec2Model ----
(***************************************************************************)
(* Model of class Cooldown of cooldown/__init__.py.                        *)
(*                                                                         *)
(* time.time() is the variable `now`, counted in whole clock units; the    *)
(* action Tick lets it advance between two calls.  Every method of        *)
(* Cooldown reads the clock at most once, so a method is one atomic step   *)
(* at one clock value.                                                     *)
(* An optional argument (start=None, new=None) is a sequence: <<>> is      *)
(* None, <<v>> is the value v.  The object is the record `self`; its      *)
(* attribute _remaining does not exist until it is first assigned: <<>>    *)
(* is "no such attribute".                                                 *)
(***************************************************************************)
EXTENDS Integers, Sequences, FiniteSets, TLC

\* Bounds of the model.
MaxTime == 5
MaxDuration == 2
\* CooldownLegacy.pause() is not called once _temperature is below -MaxDebt.
MaxDebt == 4

\* Durations handed to Cooldown(duration) and reset(new).  __init__ and
\* reset validate nothing, so a negative number is accepted like any other.
Durations == (0 - 1)..MaxDuration

\* Values assigned to the property `remaining`.
Values == (0 - 1)..(MaxDuration + 1)

None == <<>>
Some(v) == <<v>>
Optional(S) == {None} \cup {Some(v) : v \in S}

VARIABLES
    now,          \* time.time()
    self,         \* the Cooldown object: duration, t0, paused, _remaining
    last,         \* the call made last, its arguments and the object before it
    trip,         \* history of the current pause()/start() round trip
    fired,        \* when the decorated method last ran, and the time before
    legacy        \* a CooldownLegacy object: init, t0, paused, _temperature

vars == <<now, self, last, trip, fired, legacy>>

\* Python truthiness of an optional number: `if start:`, `if new:`.
Truthy(opt) == opt # None /\ opt[1] # 0

\* __init__ that leaves t0 at the clock's origin instead of reading the clock.
CooldownInit_epoch(d, s, clock) ==
    [duration |-> d,
     t0 |-> 0,
     paused |-> FALSE,
     _remaining |-> IF Truthy(s) THEN Some(d - s[1]) ELSE None]

\* Cooldown.__init__(duration, start=None), time.time() returning clock.
CooldownInit(d, s, clock) ==
    [duration |-> d,
     t0 |-> clock,
     paused |-> FALSE,
     _remaining |-> IF Truthy(s) THEN Some(d - s[1]) ELSE None]

\* The getter without the clamp of line 346.
remaining_get_noclamp(c, clock) ==
    IF c.paused
    THEN c._remaining[1]
    ELSE c.duration - (clock - c.t0)

\* Cooldown.remaining (getter) of object c, time.time() returning clock.
remaining_get(c, clock) ==
    IF c.paused
    THEN c._remaining[1]
    ELSE LET remaining == c.duration - (clock - c.t0)
         IN  IF remaining >= 0 THEN remaining ELSE 0

\* Cooldown.cold and Cooldown.hot of object c.
cold_get(c, clock) == remaining_get(c, clock) <= 0
hot_get(c, clock) == ~cold_get(c, clock)

\* A setter that restarts a running timer with t as its duration.
remaining_set_duration(c, t, clock) ==
    IF c.paused
    THEN [c EXCEPT !._remaining = Some(t)]
    ELSE [c EXCEPT !.duration = t, !.t0 = clock]

\* Cooldown.remaining (setter): c.remaining = t.
remaining_set(c, t, clock) ==
    IF c.paused
    THEN [c EXCEPT !._remaining = Some(t)]
    ELSE [c EXCEPT !.t0 = clock - (c.duration - t)]

\* reset that leaves the pause state as it is (as CooldownLegacy documents).
reset_keep_paused(c, new, clock) ==
    [c EXCEPT !.duration = IF Truthy(new) THEN new[1] ELSE @,
              !.t0 = clock]

\* Cooldown.reset(new=None)
reset(c, new, clock) ==
    [c EXCEPT !.duration = IF Truthy(new) THEN new[1] ELSE @,
              !.t0 = clock,
              !.paused = FALSE]

\* pause that derives the time left from the clock whatever the pause state.
pause_rederive(c, clock) ==
    [c EXCEPT !._remaining =
                  Some(remaining_get([c EXCEPT !.paused = FALSE], clock)),
              !.paused = TRUE]

\* Cooldown.pause()
pause(c, clock) ==
    [c EXCEPT !._remaining = Some(remaining_get(c, clock)),
              !.paused = TRUE]

\* start that resumes from the full duration (t0 = now, as
\* CooldownLegacy.start sets it) instead of from the time left.
start_full(c, clock) ==
    IF ~c.paused
    THEN c
    ELSE [c EXCEPT !.paused = FALSE, !.t0 = clock]

\* start without the early return of line 374: a running timer is re-armed.
start_rearm(c, clock) ==
    IF ~c.paused
    THEN [c EXCEPT !.t0 = clock]
    ELSE remaining_set([c EXCEPT !.paused = FALSE], c._remaining[1], clock)

\* Cooldown.start()
start(c, clock) ==
    IF ~c.paused
    THEN c
    ELSE remaining_set([c EXCEPT !.paused = FALSE], c._remaining[1], clock)

\* A wrapper that calls f on a cold timer without resetting the timer.
wrapper_noreset(c, clock1, clock2) ==
    IF cold_get(c, clock1)
    THEN [cooldown |-> c, invoked |-> TRUE, raised |-> FALSE]
    ELSE [cooldown |-> c, invoked |-> FALSE, raised |-> TRUE]

\* wrapper(self, ...) of the decorator cooldown(f), on an object whose
\* attribute cooldown is the Cooldown c.  self.cooldown.cold reads the clock
\* as clock1 and self.cooldown.reset() reads it as clock2; f is called next.
\* On a hot timer the wrapper evaluates self.cooldown.temperature, which no
\* Cooldown has: AttributeError.
wrapper(c, clock1, clock2) ==
    IF cold_get(c, clock1)
    THEN [cooldown |-> reset(c, None, clock2), invoked |-> TRUE,
          raised |-> FALSE]
    ELSE [cooldown |-> c, invoked |-> FALSE, raised |-> TRUE]

\* The properties as read from the object now.
remaining == remaining_get(self, now)
cold == cold_get(self, now)
hot == hot_get(self, now)

\* The record of a call that returned: `pre` is the object the call was made
\* on, `ret` a number it returned (None when it returned something else).
Call(op, arg, opt, pre) ==
    [op |-> op, arg |-> arg, opt |-> opt, raised |-> FALSE, pre |-> pre,
     ret |-> None, invoked |-> FALSE]

\* The record of a call that raised an exception.
Raised(op, arg, opt, pre) ==
    [op |-> op, arg |-> arg, opt |-> opt, raised |-> TRUE, pre |-> pre,
     ret |-> None, invoked |-> FALSE]

NoFired == [at |-> None, prev |-> None]

\* The CooldownLegacy object of the specifications about class Cooldown,
\* which never touch it.
NoLegacy == [init |-> 0, t0 |-> 0, paused |-> FALSE, _temperature |-> 0]

NoTrip == [phase |-> "none", R |-> 0, pausedAt |-> 0, resumedAt |-> 0, t0 |-> 0]

Init ==
    /\ now = 0
    /\ \E d \in Durations, s \in Optional(0..MaxDuration) :
          /\ self = CooldownInit(d, s, 0)
          /\ last = Call("init", Some(d), s, CooldownInit(d, s, 0))
    /\ trip = NoTrip
    /\ fired = NoFired
    /\ legacy = NoLegacy

\* c = Cooldown(d) or Cooldown(d, start=s): a new object replaces the one
\* observed.
Construct ==
    \E d \in Durations, s \in Optional(0..MaxDuration) :
        /\ self' = CooldownInit(d, s, now)
        /\ last' = Call("init", Some(d), s, self)
        /\ trip' = NoTrip
        /\ fired' = NoFired
        /\ UNCHANGED <<now, legacy>>

\* c.reset() or c.reset(new)
Reset ==
    \E new \in Optional(Durations) :
        /\ self' = reset(self, new, now)
        /\ last' = Call("reset", new, None, self)
        /\ trip' = NoTrip
        /\ UNCHANGED <<now, fired, legacy>>

\* c.pause()
Pause ==
    /\ self' = pause(self, now)
    /\ last' = Call("pause", None, None, self)
    /\ trip' = IF self.paused
               THEN trip
               ELSE [phase |-> "paused", R |-> remaining, pausedAt |-> now,
                     resumedAt |-> now, t0 |-> self.t0]
    /\ UNCHANGED <<now, fired, legacy>>

\* c.start()
Start ==
    /\ self' = start(self, now)
    /\ last' = Call("start", None, None, self)
    /\ trip' = IF self.paused /\ trip.phase = "paused"
               THEN [trip EXCEPT !.phase = "resumed", !.resumedAt = now]
               ELSE IF self.paused /\ trip.phase = "assigned"
               THEN [trip EXCEPT !.phase = "started", !.resumedAt = now]
               ELSE trip
    /\ UNCHANGED <<now, fired, legacy>>

\* c.remaining = t
SetRemaining ==
    \E t \in Values :
        /\ self' = remaining_set(self, t, now)
        /\ last' = Call("set_remaining", Some(t), None, self)
        /\ trip' = IF self.paused
                   THEN [phase |-> "assigned", R |-> t, pausedAt |-> now,
                         resumedAt |-> now, t0 |-> self.t0]
                   ELSE NoTrip
        /\ UNCHANGED <<now, fired, legacy>>

\* c.cold = v.  cold is a property without a setter (lines 307-317), so the
\* assignment raises AttributeError and changes nothing.
SetCold ==
    \E v \in BOOLEAN :
        /\ last' = Raised("set_cold", Some(IF v THEN 1 ELSE 0), None, self)
        /\ UNCHANGED <<now, self, trip, fired, legacy>>

\* Cooldown(d, cold=True).  __init__ (line 286) has no parameter `cold`, so
\* the call raises TypeError before the body runs: no object is made and the
\* one observed stays.
ConstructCold ==
    \E d \in Durations :
        /\ last' = Raised("init_cold", Some(d), None, self)
        /\ UNCHANGED <<now, self, trip, fired, legacy>>

\* c.normalized.  Cooldown defines no such attribute (lines 208-379), so the
\* read raises AttributeError.
GetNormalized ==
    /\ last' = Raised("get_normalized", None, None, self)
    /\ UNCHANGED <<now, self, trip, fired, legacy>>

\* time.time() advances between two calls.
Tick ==
    /\ now < MaxTime
    /\ now' = now + 1
    /\ last' = Call("tick", None, None, self)
    /\ UNCHANGED <<self, trip, fired, legacy>>

\* The operations of class Cooldown and its clock.
Next ==
    \/ Construct \/ Reset \/ Pause \/ Start \/ SetRemaining \/ Tick
    \/ SetCold \/ ConstructCold \/ GetNormalized

Spec == Init /\ [][Next]_vars

(***************************************************************************)
(* The decorator cooldown(f): an object that owns a Cooldown in its        *)
(* attribute cooldown and touches it only by calling the decorated method. *)
(***************************************************************************)

\* The owner is made with a Cooldown of positive duration; Construct may
\* replace it by any other.
InitDecorated ==
    /\ now = 0
    /\ \E d \in {x \in Durations : x > 0} :
          /\ self = CooldownInit(d, None, 0)
          /\ last = Call("init", Some(d), None, CooldownInit(d, None, 0))
    /\ trip = NoTrip
    /\ fired = NoFired
    /\ legacy = NoLegacy

\* obj.method(): the wrapper of lines 200-204.  The clock may advance by dt
\* between the read of cold and the reset; f is called right after the
\* reset, at the clock value fired.at.
Wrapper ==
    \E dt \in 0..1 :
        /\ now + dt <= MaxTime
        /\ dt = 0 \/ cold
        /\ LET r == wrapper(self, now, now + dt)
           IN  /\ self' = r.cooldown
               /\ last' = [op |-> "wrapper", arg |-> Some(dt), opt |-> None,
                           raised |-> r.raised, pre |-> self, ret |-> None,
                           invoked |-> r.invoked]
               /\ fired' = IF r.invoked
                           THEN [at |-> Some(now + dt), prev |-> fired.at]
                           ELSE fired
        /\ now' = now + dt
        /\ trip' = NoTrip
        /\ UNCHANGED legacy

NextDecorated == Construct \/ Wrapper \/ Tick

SpecDecorated == InitDecorated /\ [][NextDecorated]_vars

(***************************************************************************)
(* Class CooldownLegacy (lines 30-184), the object `legacy`.               *)
(***************************************************************************)

\* CooldownLegacy.reset(new=None)
legacy_reset(c, new, clock) ==
    [init |-> IF Truthy(new) THEN new[1] ELSE c.init,
     t0 |-> clock,
     _temperature |-> IF Truthy(new) THEN new[1] ELSE c.init,
     paused |-> FALSE]

\* CooldownLegacy.__init__(temperature, start=None)
legacy_init(temperature, s, clock) ==
    LET c == legacy_reset([init |-> temperature, t0 |-> clock,
                           _temperature |-> temperature, paused |-> FALSE],
                          None, clock)
    IN  IF Truthy(s) THEN [c EXCEPT !._temperature = s[1]] ELSE c

\* CooldownLegacy.temperature (getter)
legacy_temperature(c, clock) ==
    IF c.paused
    THEN c._temperature
    ELSE LET passed == clock - c.t0
         IN  c._temperature - passed

\* CooldownLegacy.temperature (setter)
legacy_temperature_set(c, val) == [c EXCEPT !._temperature = val]

\* CooldownLegacy.cold
legacy_cold(c, clock) ==
    IF c.paused
    THEN c._temperature <= 0
    ELSE c.t0 + c._temperature < clock

\* CooldownLegacy.pause()
legacy_pause(c, clock) ==
    [c EXCEPT !.paused = TRUE,
              !._temperature = @ - (clock - c.t0)]

\* CooldownLegacy.start()
legacy_start(c, clock) == [c EXCEPT !.t0 = clock, !.paused = FALSE]

\* The object is made with a positive temperature; reset(new) may give it
\* any other.
InitLegacy ==
    /\ now = 0
    /\ \E d \in {x \in Durations : x > 0}, s \in Optional(0..MaxDuration) :
          /\ legacy = legacy_init(d, s, 0)
          /\ last = Call("init", Some(d), s, legacy_init(d, s, 0))
    /\ self = CooldownInit(0, None, 0)
    /\ trip = NoTrip
    /\ fired = NoFired

\* c.reset() or c.reset(new)
LegacyReset ==
    \E new \in Optional(Durations) :
        /\ legacy' = legacy_reset(legacy, new, now)
        /\ last' = Call("reset", new, None, legacy)
        /\ UNCHANGED <<now, self, trip, fired>>

\* c.pause()
LegacyPause ==
    /\ legacy._temperature >= 0 - MaxDebt
    /\ legacy' = legacy_pause(legacy, now)
    /\ last' = Call("pause", None, None, legacy)
    /\ UNCHANGED <<now, self, trip, fired>>

\* c.start()
LegacyStart ==
    /\ legacy' = legacy_start(legacy, now)
    /\ last' = Call("start", None, None, legacy)
    /\ UNCHANGED <<now, self, trip, fired>>

\* c.temperature = val
LegacySetTemperature ==
    \E val \in Values :
        /\ legacy' = legacy_temperature_set(legacy, val)
        /\ last' = Call("set_temperature", Some(val), None, legacy)
        /\ UNCHANGED <<now, self, trip, fired>>

\* time.time() advances between two calls.
LegacyTick ==
    /\ now < MaxTime
    /\ now' = now + 1
    /\ last' = Call("tick", None, None, legacy)
    /\ UNCHANGED <<self, trip, fired, legacy>>

NextLegacy ==
    \/ LegacyReset \/ LegacyPause \/ LegacyStart \/ LegacySetTemperature
    \/ LegacyTick

SpecLegacy == InitLegacy /\ [][NextLegacy]_vars

Max0(n) == IF n >= 0 THEN n ELSE 0

\* The object and the clock just before the call recorded in `last`.
PreClock ==
    IF last.op = "tick" THEN now - 1
    ELSE IF last.op = "wrapper" THEN now - last.arg[1]
    ELSE now
PreRemaining == remaining_get(last.pre, PreClock)

\* CooldownLegacy.temperature now and just before the call recorded in `last`.
temperature == legacy_temperature(legacy, now)
PreTemperature == legacy_temperature(last.pre, PreClock)

(***************************************************************************)
(* C1: pause/resume round trip.  A running timer is paused when its        *)
(* remaining is R (trip.R, at clock trip.pausedAt), stays paused for       *)
(* x = trip.resumedAt - trip.pausedAt and is resumed by start().  From     *)
(* then on, with k the time since that start(): remaining = max(R - k, 0)  *)
(* (so remaining = R right after start()), the timer is cold exactly from  *)
(* k = R on, and remaining is what the never-paused timer (the t0 it had   *)
(* before pause()) showed x clock units earlier.                           *)
(***************************************************************************)
C1_PauseResumeRoundTrip ==
    trip.phase = "resumed" =>
        LET k == now - trip.resumedAt
            x == trip.resumedAt - trip.pausedAt
        IN  /\ ~self.paused
            /\ remaining = Max0(trip.R - k)
            /\ cold <=> (k >= trip.R)
            /\ remaining = remaining_get([self EXCEPT !.t0 = trip.t0], now - x)

\* A timer paused with 0 < R < duration for x > 0, resumed, at the instant
\* it goes cold.
C1_Witness ==
    /\ trip.phase = "resumed"
    /\ trip.R > 0
    /\ trip.R < self.duration
    /\ trip.resumedAt > trip.pausedAt
    /\ now - trip.resumedAt = trip.R
    /\ cold

(***************************************************************************)
(* C2: while paused, remaining is frozen.  pause() leaves the timer paused *)
(* with the remaining observed at the instant of the call; from a pause()  *)
(* of a running timer until the timer is started, reset or assigned to,    *)
(* remaining stays the value captured then (trip.R), whatever the clock,   *)
(* and a further pause() changes no field of the object.                   *)
(***************************************************************************)
C2_PausedRemainingFrozen ==
    /\ trip.phase = "paused" => self.paused /\ remaining = trip.R
    /\ last.op = "pause" => self.paused /\ remaining = PreRemaining
    /\ last.op = "pause" /\ last.pre.paused => self = last.pre
    /\ last.op = "tick" /\ self.paused => remaining = PreRemaining

\* A second pause() two clock units after the first, the clock-derived
\* value having moved away from the frozen one.
C2_Witness ==
    /\ trip.phase = "paused"
    /\ last.op = "pause"
    /\ last.pre.paused
    /\ now - trip.pausedAt >= 2
    /\ trip.R > 0
    /\ remaining_get([self EXCEPT !.paused = FALSE], now) # trip.R

(***************************************************************************)
(* C3: a running timer under clock ticks alone.  Across a tick remaining   *)
(* does not increase and is never negative; once 0 it stays 0 with cold    *)
(* true; and once duration clock units have elapsed since the start        *)
(* reference time t0 it is 0 and the timer is cold.                        *)
(***************************************************************************)
C3_RunningRemainingDecreasesToZero ==
    /\ last.op = "tick" /\ ~self.paused =>
          /\ remaining <= PreRemaining
          /\ remaining >= 0
          /\ PreRemaining = 0 => remaining = 0 /\ cold /\ ~hot
    /\ ~self.paused /\ now - self.t0 >= self.duration => remaining = 0 /\ cold

\* A running timer of positive duration that a tick has just taken past
\* its end: the unclamped value is negative.
C3_Witness ==
    /\ last.op = "tick"
    /\ ~self.paused
    /\ self.duration > 0
    /\ PreRemaining = 0
    /\ self.duration - (now - self.t0) < 0
    /\ remaining = 0
    /\ cold

C5_ResetNoArgFullDuration ==
    last.op = "reset" /\ last.arg = None =>
        /\ ~self.paused
        /\ self.duration = last.pre.duration
        /\ remaining = self.duration

(***************************************************************************)
(* C6: start() on a running timer changes no field of the object           *)
(* (duration, paused, t0, _remaining), so the observed remaining is what   *)
(* it was before the call.                                                 *)
(***************************************************************************)
C6_StartRunningNoOp ==
    last.op = "start" /\ ~last.pre.paused =>
        /\ self = last.pre
        /\ remaining = PreRemaining

\* start() on a running timer part of whose duration has elapsed.
C6_Witness ==
    /\ last.op = "start"
    /\ ~last.pre.paused
    /\ now - self.t0 >= 1
    /\ remaining > 0
    /\ remaining < self.duration

(***************************************************************************)
(* C7: in every reachable state 0 <= remaining <= duration.                *)
(***************************************************************************)
C7_RemainingInRange ==
    /\ 0 <= remaining
    /\ remaining <= self.duration

(***************************************************************************)
(* C8: in every reachable state cold is true exactly when remaining = 0,   *)
(* and hot is the negation of cold.                                        *)
(***************************************************************************)
C8_ColdIffRemainingZero ==
    /\ cold <=> (remaining = 0)
    /\ hot <=> ~cold

(***************************************************************************)
(* C9: for every d >= 0, right after Cooldown(d) without options: paused   *)
(* is false, duration = d, remaining = d and cold = (d = 0).               *)
(***************************************************************************)
C9_ConstructDefault ==
    last.op = "init" /\ last.opt = None /\ last.arg[1] >= 0 =>
        /\ ~self.paused
        /\ self.duration = last.arg[1]
        /\ remaining = last.arg[1]
        /\ cold <=> (last.arg[1] = 0)

\* Cooldown(d) with d > 0 constructed after the clock has advanced.
C9_Witness ==
    /\ last.op = "init"
    /\ last.opt = None
    /\ last.arg[1] > 0
    /\ now > 0
    /\ hot

(***************************************************************************)
(* C10: assigning to remaining while the timer is running raises an error  *)
(* and changes no field of the object, so the observed remaining is what   *)
(* it was before the attempt.                                              *)
(***************************************************************************)
C10_SetRemainingRunningRejected ==
    last.op = "set_remaining" /\ ~last.pre.paused =>
        /\ last.raised
        /\ self = last.pre
        /\ remaining = PreRemaining
(***************************************************************************)
(* C11: assigning t to remaining while the timer is paused leaves it       *)
(* paused with the same duration and remaining reads t; after a following  *)
(* start() (trip.phase = "started", k clock units ago) remaining is t at   *)
(* k = 0 and max(t - k, 0) from there.                                     *)
(***************************************************************************)
C11_SetRemainingPausedThenStart ==
    /\ last.op = "set_remaining" /\ last.pre.paused =>
          /\ ~last.raised
          /\ self.paused
          /\ self.duration = last.pre.duration
          /\ remaining = last.arg[1]
    /\ trip.phase = "started" =>
          LET k == now - trip.resumedAt
          IN  /\ ~self.paused
              /\ k = 0 => remaining = trip.R
              /\ k > 0 => remaining = Max0(trip.R - k)

(***************************************************************************)
(* C12: c.cold = True succeeds and forces the timer cold: afterwards cold  *)
(* is true, hot is false, remaining = 0 and duration is unchanged.         *)
(***************************************************************************)
C12_SetColdForcesCold ==
    last.op = "set_cold" /\ last.arg = Some(1) =>
        /\ ~last.raised
        /\ cold
        /\ ~hot
        /\ remaining = 0
        /\ self.duration = last.pre.duration

(***************************************************************************)
(* C13: right after Cooldown(d, start=s) remaining = max(d - s, 0), and    *)
(* the timer is cold exactly from d - s clock units after construction.    *)
(***************************************************************************)
C13_ConstructStartElapsed ==
    last.op = "init" /\ last.opt # None =>
        /\ remaining = Max0(last.arg[1] - last.opt[1])
        /\ \A k \in 0..MaxDuration :
              cold_get(self, now + k) <=> (k >= last.arg[1] - last.opt[1])

(***************************************************************************)
(* C14: Cooldown(d, cold=True) yields a timer with duration = d that is    *)
(* cold at once: remaining = 0, cold is true, hot is false.                *)
(***************************************************************************)
C14_ConstructCold ==
    last.op = "init_cold" =>
        /\ ~last.raised
        /\ self.duration = last.arg[1]
        /\ remaining = 0
        /\ cold
        /\ ~hot

(***************************************************************************)
(* C15: Cooldown(d) with d < 0 is rejected with an error, and no reachable *)
(* Cooldown has duration < 0.                                              *)
(***************************************************************************)
C15_NegativeDurationRejected ==
    /\ last.op = "init" /\ last.arg[1] < 0 => last.raised
    /\ self.duration >= 0

(***************************************************************************)
(* C16: reading normalized succeeds and returns (duration - remaining) /   *)
(* duration when duration > 0 and 1 when duration = 0 (last.ret is the     *)
(* value in hundredths), a value in [0, 1] that is 1 whenever the timer is *)
(* cold.                                                                   *)
(***************************************************************************)
C16_Normalized ==
    last.op = "get_normalized" =>
        /\ ~last.raised
        /\ last.ret # None
        /\ self.duration > 0 =>
              last.ret[1] * self.duration = 100 * (self.duration - remaining)
        /\ self.duration = 0 => last.ret[1] = 100
        /\ 0 <= last.ret[1] /\ last.ret[1] <= 100
        /\ cold => last.ret[1] = 100

(***************************************************************************)
(* C18: only reset(new) changes the duration of a Cooldown: start(),       *)
(* pause(), an assignment to remaining or cold (accepted or not), a read   *)
(* and a clock tick leave it as it was; start, pause and the assignment    *)
(* change nothing but paused, t0 and _remaining.                           *)
(***************************************************************************)
C18_DurationChangedOnlyByReset ==
    /\ last.op \notin {"init", "reset"} => self.duration = last.pre.duration
    /\ last.op = "reset" /\ ~Truthy(last.arg) =>
          self.duration = last.pre.duration

\* An assignment to remaining on a running timer, of a value other than the
\* duration, that moved t0.
C18_Witness ==
    /\ last.op = "set_remaining"
    /\ ~last.pre.paused
    /\ last.arg[1] # self.duration
    /\ self.t0 # last.pre.t0
    /\ self.duration > 0
(***************************************************************************)
(* C17: a call of the decorated method.  On a cold timer it calls f,       *)
(* raises nothing and leaves the timer reset: running, remaining =         *)
(* duration.  On a hot timer it does not call f, returns the remaining     *)
(* time and leaves the timer as it was.                                    *)
(***************************************************************************)
C17_DecoratorWrapper ==
    last.op = "wrapper" =>
        /\ cold_get(last.pre, PreClock) =>
              /\ last.invoked
              /\ ~last.raised
              /\ ~self.paused
              /\ remaining = self.duration
        /\ hot_get(last.pre, PreClock) =>
              /\ ~last.invoked
              /\ ~last.raised
              /\ last.ret = Some(PreRemaining)
              /\ self = last.pre

(***************************************************************************)
(* C19: rate limiting.  On an object whose Cooldown of duration d > 0 is   *)
(* touched only through the decorated method, f is called only when the    *)
(* timer was read cold, and two successive calls of f (at fired.prev and   *)
(* fired.at) are at least d clock units apart.                             *)
(***************************************************************************)
C19_DecoratorRateLimit ==
    /\ last.op = "wrapper" /\ last.invoked => cold_get(last.pre, PreClock)
    /\ fired.at # None /\ fired.prev # None /\ self.duration > 0 =>
          fired.at[1] - fired.prev[1] >= self.duration

\* Two successive calls of f exactly d = MaxDuration apart, the second just
\* made.
C19_Witness ==
    /\ last.op = "wrapper"
    /\ last.invoked
    /\ fired.prev # None
    /\ self.duration = MaxDuration
    /\ fired.at[1] - fired.prev[1] = self.duration
    /\ fired.at = Some(now)
(***************************************************************************)
(* C20: CooldownLegacy.pause() leaves the timer paused with temperature    *)
(* equal to the time left just before the call, on a running timer and on  *)
(* a paused one; while paused a clock tick does not change temperature;    *)
(* and start() on a paused timer leaves it running with temperature equal  *)
(* to the paused value.                                                    *)
(***************************************************************************)
C20_LegacyPauseRemembersTimeLeft ==
    /\ last.op = "pause" => legacy.paused /\ temperature = PreTemperature
    /\ last.op = "tick" /\ legacy.paused => temperature = PreTemperature
    /\ last.op = "start" /\ last.pre.paused =>
          ~legacy.paused /\ temperature = PreTemperature
====
